---- MODULE Spec2Model ----
(***************************************************************************)
(* MCP-Essentials: the three MCP client programs                           *)
(*   src/clients/bmi_client/client.py      main(query)                     *)
(*   src/clients/opencv_client/client.py   main(query)                     *)
(*   src/servers/hello_world_server/utils.py   get_tools_list()            *)
(* modelled as one sequential control flow each.  Texts (model             *)
(* completions, prompts, tool output) are sequences of lexical tokens;     *)
(* json.loads is a parser over them.  Byte strings are sequences of        *)
(* integers, base64 text is a sequence of alphabet indices (64 is '=').    *)
(***************************************************************************)
EXTENDS Integers, Sequences, FiniteSets, TLC

\* Largest number of Content Items in a Result Envelope the server returns.
MaxItems == 2

----------------------------------------------------------------------------
(* Texts *)

Tok(k, s, n) == [k |-> k, s |-> s, n |-> n]
Word(s) == Tok("word", s, 0)
Str(s) == Tok("str", s, 0)
Num(n) == Tok("num", "", n)
WS == Tok("ws", "", 0)
LB == Tok("lb", "", 0)
RB == Tok("rb", "", 0)
COLON == Tok("colon", "", 0)
COMMA == Tok("comma", "", 0)

\* str.strip(): leading and trailing whitespace removed
RECURSIVE LStrip(_)
LStrip(s) ==
    IF s # <<>> /\ Head(s).k = "ws" THEN LStrip(Tail(s)) ELSE s

RECURSIVE RStrip(_)
RStrip(s) ==
    IF s # <<>> /\ s[Len(s)].k = "ws" THEN RStrip(SubSeq(s, 1, Len(s) - 1)) ELSE s

strip(s) == RStrip(LStrip(s))

----------------------------------------------------------------------------
(* json.loads on the JSON subset {objects, strings, numbers} *)

NoneV == [ty |-> "none", s |-> "", n |-> 0, d |-> <<>>]
StrV(s) == [ty |-> "str", s |-> s, n |-> 0, d |-> <<>>]
NumV(n) == [ty |-> "num", s |-> "", n |-> n, d |-> <<>>]
DictV(d) == [ty |-> "dict", s |-> "", n |-> 0, d |-> d]

HasKey(d, key) == \E j \in 1..Len(d) : d[j].key = key

\* dict[key] = val: a repeated key keeps its position and takes the last value
Put(d, key, val) ==
    IF HasKey(d, key)
    THEN [j \in 1..Len(d) |-> IF d[j].key = key THEN [key |-> key, val |-> val] ELSE d[j]]
    ELSE Append(d, [key |-> key, val |-> val])

Get(d, key) == d[CHOOSE j \in 1..Len(d) : d[j].key = key].val

ParseFail == [ok |-> FALSE, v |-> NoneV, i |-> 0]

RECURSIVE ParseValue(_, _)
RECURSIVE ParsePairs(_, _, _)

ParsePairs(t, i, acc) ==
    IF i + 1 > Len(t) \/ t[i].k # "str" \/ t[i + 1].k # "colon"
    THEN ParseFail
    ELSE LET r == ParseValue(t, i + 2) IN
         IF ~r.ok \/ r.i > Len(t) THEN ParseFail
         ELSE IF t[r.i].k = "comma" THEN ParsePairs(t, r.i + 1, Put(acc, t[i].s, r.v))
         ELSE IF t[r.i].k = "rb"
              THEN [ok |-> TRUE, v |-> DictV(Put(acc, t[i].s, r.v)), i |-> r.i + 1]
         ELSE ParseFail

ParseValue(t, i) ==
    IF i > Len(t) THEN ParseFail
    ELSE IF t[i].k = "str" THEN [ok |-> TRUE, v |-> StrV(t[i].s), i |-> i + 1]
    ELSE IF t[i].k = "num" THEN [ok |-> TRUE, v |-> NumV(t[i].n), i |-> i + 1]
    ELSE IF t[i].k = "lb"
         THEN IF i + 1 <= Len(t) /\ t[i + 1].k = "rb"
              THEN [ok |-> TRUE, v |-> DictV(<<>>), i |-> i + 2]
              ELSE ParsePairs(t, i + 1, <<>>)
    ELSE ParseFail

\* JSON whitespace between tokens is insignificant
NoWS(s) == SelectSeq(s, LAMBDA x : x.k # "ws")

\* json.loads(s): the value, or JSONDecodeError (also on trailing data)
json_loads(s) ==
    LET t == NoWS(s)
        r == ParseValue(t, 1)
    IN IF r.ok /\ r.i = Len(t) + 1
       THEN [exc |-> "none", v |-> r.v]
       ELSE [exc |-> "JSONDecodeError", v |-> NoneV]

\* v[key] for a str key: KeyError on a dict without it, TypeError on a non-dict
Subscript(v, key) ==
    IF v.ty # "dict" THEN [exc |-> "TypeError", v |-> NoneV]
    ELSE IF ~HasKey(v.d, key) THEN [exc |-> "KeyError", v |-> NoneV]
    ELSE [exc |-> "none", v |-> Get(v.d, key)]

----------------------------------------------------------------------------
(* base64.b64encode / base64.b64decode *)

PAD == 64

\* an encoder that leaves the last sextet of a two-byte tail unshifted
RECURSIVE b64encode_unshifted(_)
b64encode_unshifted(b) ==
    IF Len(b) = 0 THEN <<>>
    ELSE IF Len(b) = 1
         THEN <<b[1] \div 4, (b[1] % 4) * 16, PAD, PAD>>
    ELSE IF Len(b) = 2
         THEN <<b[1] \div 4, (b[1] % 4) * 16 + b[2] \div 16, b[2] % 16, PAD>>
    ELSE <<b[1] \div 4, (b[1] % 4) * 16 + b[2] \div 16,
           (b[2] % 16) * 4 + b[3] \div 64, b[3] % 64>>
         \o b64encode_unshifted(SubSeq(b, 4, Len(b)))

RECURSIVE b64encode(_)
b64encode(b) ==
    IF Len(b) = 0 THEN <<>>
    ELSE IF Len(b) = 1
         THEN <<b[1] \div 4, (b[1] % 4) * 16, PAD, PAD>>
    ELSE IF Len(b) = 2
         THEN <<b[1] \div 4, (b[1] % 4) * 16 + b[2] \div 16, (b[2] % 16) * 4, PAD>>
    ELSE <<b[1] \div 4, (b[1] % 4) * 16 + b[2] \div 16,
           (b[2] % 16) * 4 + b[3] \div 64, b[3] % 64>>
         \o b64encode(SubSeq(b, 4, Len(b)))

\* the bytes a partly filled quad of sextets has produced so far
QuadBytes(q) ==
    (IF Len(q) >= 2 THEN <<q[1] * 4 + q[2] \div 16>> ELSE <<>>)
    \o (IF Len(q) >= 3 THEN <<(q[2] % 16) * 16 + q[3] \div 4>> ELSE <<>>)
    \o (IF Len(q) >= 4 THEN <<(q[3] % 4) * 64 + q[4]>> ELSE <<>>)

\* binascii.a2b_base64, non-strict: a complete pad sequence ends the parse,
\* a stray '=' is skipped, a dangling quad is an error
RECURSIVE b64scan(_, _, _, _, _)
b64scan(s, i, q, pads, acc) ==
    IF i > Len(s)
    THEN IF q = <<>> THEN [exc |-> "none", v |-> acc]
         ELSE [exc |-> "binascii.Error", v |-> <<>>]
    ELSE IF s[i] = PAD
         THEN IF Len(q) >= 2 /\ Len(q) + pads + 1 >= 4
              THEN [exc |-> "none", v |-> acc \o QuadBytes(q)]
              ELSE b64scan(s, i + 1, q, IF Len(q) >= 2 THEN pads + 1 ELSE pads, acc)
    ELSE IF Len(q) = 3
         THEN b64scan(s, i + 1, <<>>, 0, acc \o QuadBytes(Append(q, s[i])))
    ELSE b64scan(s, i + 1, Append(q, s[i]), 0, acc)

b64decode(s) == b64scan(s, 1, <<>>, 0, <<>>)

----------------------------------------------------------------------------
(* Content Items and Result Envelopes (mcp.types) *)

TextContent(text) ==
    [type |-> "text", text |-> text, data |-> <<>>, isstr |-> FALSE, mimeType |-> ""]
ImageContent(data, isstr, mimeType) ==
    [type |-> "image", text |-> <<>>, data |-> data, isstr |-> isstr, mimeType |-> mimeType]

BmiText == <<Word("{\"bmi\": 25.93, \"category\": \"Overweight\"}")>>
ErrText == <<Word("Failed to capture webcam screenshot: Could not open camera.")>>

\* "Man" / "TWFu" ; "TWF" lacks its padding ; raw payloads of 2, 1 and 3 bytes
ItemPool ==
    { TextContent(BmiText),
      TextContent(ErrText),
      ImageContent(<<19, 22, 5, 46>>, TRUE, "image/png"),
      ImageContent(<<19, 22, 5>>, TRUE, "image/png"),
      ImageContent(<<77, 97>>, FALSE, "image/jpeg"),
      ImageContent(<<255>>, FALSE, "image/png"),
      ImageContent(<<0, 128, 255>>, FALSE, "image/png") }

SeqsUpTo(S, n) == UNION { [1..k -> S] : k \in 0..n }

Envelopes ==
    { [content |-> c, isError |-> e] : c \in SeqsUpTo(ItemPool, MaxItems), e \in BOOLEAN }

NoEnvelope == [content |-> <<>>, isError |-> FALSE]

----------------------------------------------------------------------------
(* Capability registries of the three servers (the @mcp.tool() functions) *)

Tool(name, description, inputSchema) ==
    [name |-> name, description |-> description, inputSchema |-> inputSchema]

BmiServerTools ==
    << Tool("calculate_bmi",
            "Calculate BMI given weight in kg and height in centimeters.",
            "{weight_kg: number, height_cm: number}") >>

HelloWorldServerTools ==
    << Tool("hello_world", "Returns a friendly greeting message", "{name: string}"),
       Tool("calculate_sum", "Returns the sum of two numbers", "{a: integer, b: integer}") >>

OpencvServerTools ==
    << Tool("take_screenshot",
            "Capture a single frame from a webcam and return it as a PNG image.",
            "{output_filename: string}") >>

\* the server each client's server_params launches
ServerTools(c) ==
    IF c = "bmi" THEN BmiServerTools
    ELSE IF c = "opencv" THEN OpencvServerTools
    ELSE HelloWorldServerTools

ToolNames(ts) == { ts[j].name : j \in 1..Len(ts) }

----------------------------------------------------------------------------
(* bmi_client: prompt_to_identify_tools *)

RECURSIVE Join(_, _)
Join(sep, parts) ==
    IF parts = <<>> THEN <<>>
    ELSE IF Len(parts) = 1 THEN parts[1]
    ELSE parts[1] \o sep \o Join(sep, Tail(parts))

\* the entry of lines 28-30 without its "Description: " line
ToolInfo_nodescription(tool) ==
    << Word("Tool: "), Word(tool.name),
       Word("\nInput Schema: "), Word(tool.inputSchema), Word("\n") >>

ToolInfo(tool) ==
    << Word("Tool: "), Word(tool.name), Word("\nDescription: "), Word(tool.description),
       Word("\nInput Schema: "), Word(tool.inputSchema), Word("\n") >>

prompt_to_identify_tools(ts, q) ==
    << Word("You are a helpful AI assistant with access to specialized tools."),
       Word("Available Tools:") >>
    \o Join(<<Word("\n")>>, [j \in 1..Len(ts) |-> ToolInfo(ts[j])])
    \o << Word("User's Question: ") >> \o q
    \o << Word("If you need to use a tool, respond ONLY with a JSON object in this exact format"),
          Word("If no tool is needed, respond directly with your answer.") >>

----------------------------------------------------------------------------
(* What the language model may answer *)

BmiArgs ==
    << LB, Str("weight_kg"), COLON, Num(84), COMMA, Str("height_cm"), COLON, Num(180), RB >>

ToolCallText(name, args) ==
    << LB, Str("tool"), COLON, Str(name), COMMA, Str("arguments"), COLON >> \o args \o << RB >>

\* the same object with its members in the other order
ToolCallTextSwapped(name, args) ==
    << LB, Str("arguments"), COLON >> \o args \o << COMMA, Str("tool"), COLON, Str(name), RB >>

HeightOnlyArgs == << LB, Str("height_cm"), COLON, Num(180), RB >>

PlainAnswer == << Word("Tools are not needed here.") >>

Completions ==
    { PlainAnswer,
      ToolCallText("calculate_bmi", BmiArgs),
      << WS >> \o ToolCallText("calculate_bmi", BmiArgs) \o << WS >>,
      ToolCallText("calculate_bmi", BmiArgs) \o << Word("Let me know if you need more.") >>,
      ToolCallText("compute_bmi", BmiArgs),
      ToolCallText("calculate_bmi", HeightOnlyArgs),
      ToolCallTextSwapped("calculate_bmi", BmiArgs),
      << LB, Str("tool"), COLON, Str("calculate_bmi"), RB >>,
      << LB, Str("arguments"), COLON >> \o BmiArgs \o << RB >>,
      << Num(42) >> }

Summaries ==
    { << Word("A BMI of 25.93 is in the overweight range.") >>,
      << WS, Word("The image shows a person at a desk."), WS >> }

\* exceptions of the OpenAI call: an API error, or content None at .strip()
LLMFailures == { "OpenAIError", "AttributeError" }

\* exceptions of an awaited session call
SessionFailures == { "ProtocolError", "ChannelClosedError", "CancelledError" }

BmiQuery == << Word("What is the BMI of a 180cm tall person weighing 84kg?") >>
OpencvQuery == << Word("Describe the image in detail") >>

NoUrl == [mime |-> "", payload |-> <<>>]

----------------------------------------------------------------------------
(* Python float: IEEE-754 binary64 with round-to-nearest-even.  A float is *)
(* m * 2^e with m a natural number below 2^53 written in 15-bit limbs,     *)
(* least significant first.                                                *)

LimbBase == 32768
LimbBits == 15
Precision == 53

RECURSIVE Pow2(_)
Pow2(k) == IF k = 0 THEN 1 ELSE 2 * Pow2(k - 1)

RECURSIVE Big(_)
Big(n) == IF n = 0 THEN <<>> ELSE << n % LimbBase >> \o Big(n \div LimbBase)

RECURSIVE BToInt(_)
BToInt(a) == IF a = <<>> THEN 0 ELSE a[1] + LimbBase * BToInt(Tail(a))

RECURSIVE BTrim(_)
BTrim(a) ==
    IF a # <<>> /\ a[Len(a)] = 0 THEN BTrim(SubSeq(a, 1, Len(a) - 1)) ELSE a

Limb(a, j) == IF j <= Len(a) THEN a[j] ELSE 0

\* a * k + c for a small k, c
RECURSIVE BMulSmall(_, _, _)
BMulSmall(a, k, c) ==
    IF a = <<>> THEN Big(c)
    ELSE << (a[1] * k + c) % LimbBase >>
         \o BMulSmall(Tail(a), k, (a[1] * k + c) \div LimbBase)

RECURSIVE BAdd(_, _, _)
BAdd(a, b, c) ==
    IF a = <<>> /\ b = <<>> THEN Big(c)
    ELSE LET t == Limb(a, 1) + Limb(b, 1) + c IN
         << t % LimbBase >>
         \o BAdd(IF a = <<>> THEN a ELSE Tail(a), IF b = <<>> THEN b ELSE Tail(b),
                 t \div LimbBase)

\* a - b - c for a >= b + c
RECURSIVE BSub(_, _, _)
BSub(a, b, c) ==
    IF a = <<>> THEN <<>>
    ELSE LET t == a[1] - Limb(b, 1) - c IN
         << IF t < 0 THEN t + LimbBase ELSE t >>
         \o BSub(Tail(a), IF b = <<>> THEN b ELSE Tail(b), IF t < 0 THEN 1 ELSE 0)

\* -1, 0, 1 as a < b, a = b, a > b
RECURSIVE BCmpAt(_, _, _)
BCmpAt(a, b, j) ==
    IF j = 0 THEN 0
    ELSE IF Limb(a, j) < Limb(b, j) THEN -1
    ELSE IF Limb(a, j) > Limb(b, j) THEN 1
    ELSE BCmpAt(a, b, j - 1)

BCmp(a, b) == BCmpAt(a, b, IF Len(a) > Len(b) THEN Len(a) ELSE Len(b))

RECURSIVE BMul(_, _)
BMul(a, b) ==
    IF b = <<>> THEN <<>>
    ELSE BAdd(BMulSmall(a, b[1], 0), << 0 >> \o BMul(a, Tail(b)), 0)

\* a * 2^k
BShl(a, k) ==
    [j \in 1..(k \div LimbBits) |-> 0] \o BMulSmall(a, Pow2(k % LimbBits), 0)

RECURSIVE IntBitLen(_)
IntBitLen(n) == IF n = 0 THEN 0 ELSE 1 + IntBitLen(n \div 2)

BitLen(a) ==
    LET t == BTrim(a) IN
    IF t = <<>> THEN 0 ELSE LimbBits * (Len(t) - 1) + IntBitLen(t[Len(t)])

\* bit k (from 0) of a
BBit(a, k) == (Limb(a, k \div LimbBits + 1) \div Pow2(k % LimbBits)) % 2

\* floor(a / 2^k)
BShr(a, k) ==
    LET w == k \div LimbBits
        r == k % LimbBits
        n == IF Len(a) > w THEN Len(a) - w ELSE 0
    IN BTrim([j \in 1..n |->
                 a[j + w] \div Pow2(r) + (Limb(a, j + w + 1) % Pow2(r)) * Pow2(LimbBits - r)])

\* a mod 2^k
BLow(a, k) == BTrim(BSub(a, BShl(BShr(a, k), k), 0))

\* one step of binary long division: bit k of the dividend a comes down
DivStep(a, d, st, k) ==
    LET r2 == BMulSmall(st.r, 2, BBit(a, k))
        ge == BCmp(r2, d) >= 0
    IN [q |-> BMulSmall(st.q, 2, IF ge THEN 1 ELSE 0),
        r |-> IF ge THEN BSub(r2, d, 0) ELSE r2]

\* the steps for bits hi down to lo, the upper half of the range first
RECURSIVE DivRun(_, _, _, _, _)
DivRun(a, d, st, hi, lo) ==
    IF hi < lo THEN st
    ELSE IF hi = lo THEN DivStep(a, d, st, hi)
    ELSE LET mid == (hi + lo + 1) \div 2
             upper == DivRun(a, d, st, hi, mid)
         IN IF Len(upper.q) + Len(upper.r) >= 0
            THEN DivRun(a, d, upper, mid - 1, lo)
            ELSE upper

\* quotient and remainder of a by d
BDivMod(a, d) ==
    LET st == DivRun(a, d, [q |-> <<>>, r |-> <<>>], BitLen(a) - 1, 0)
    IN [q |-> BTrim(st.q), r |-> BTrim(st.r)]

\* n * 2^e rounded to 53 bits, ties to even; sticky: bits were lost below n
RoundNearestEven(n, e, sticky) ==
    LET s == BitLen(n) - Precision IN
    IF s <= 0 THEN [m |-> BTrim(n), e |-> e]
    ELSE LET q == BShr(n, s)
             c == BCmp(BLow(n, s), BShl(<< 1 >>, s - 1))
             up == c > 0 \/ (c = 0 /\ (sticky \/ BBit(q, 0) = 1))
         IN [m |-> IF up THEN BTrim(BAdd(q, << 1 >>, 0)) ELSE q, e |-> e + s]

\* float(n) for a small natural n
Float(n) == [m |-> Big(n), e |-> 0]

\* x * y
FMul(x, y) == RoundNearestEven(BMul(x.m, y.m), x.e + y.e, FALSE)

\* x / y : 56 or 57 quotient bits, then rounded
FDiv(x, y) ==
    LET k == Precision + 3 + BitLen(y.m) - BitLen(x.m)
        n == BShl(x.m, k)
        d == BDivMod(n, y.m)
    IN RoundNearestEven(d.q, x.e - y.e - k, d.r # <<>>)

\* x < p / q for naturals p, q; x.e <= 0 for every value compared here
FLess(x, p, q) == BCmp(BMulSmall(x.m, q, 0), BShl(Big(p), 0 - x.e)) < 0

\* round(x, 2) in hundredths: the nearest multiple of 0.01, ties to even
Round2(x) ==
    LET n == BMulSmall(x.m, 100, 0)
        s == 0 - x.e
        q == BShr(n, s)
        c == IF s = 0 THEN -1 ELSE BCmp(BLow(n, s), BShl(<< 1 >>, s - 1))
    IN BToInt(q) + (IF c > 0 \/ (c = 0 /\ BBit(q, 0) = 1) THEN 1 ELSE 0)

----------------------------------------------------------------------------
(* State *)

VARIABLES
    client,             \* "bmi" | "opencv" | "tools": the program that runs
    query,              \* main's argument
    pc,                 \* the statement the coroutine is at
    proc,               \* child server process: "none" | "running" | "terminated"
    sess,               \* ClientSession: "none" | "uninit" | "init" | "closed"
    exc,                \* exception in flight, "none" if none
    escaped,            \* exception that left main / get_tools_list
    returned,           \* value returned by get_tools_list
    log,                \* calls made and results received, in order
    tools,              \* result of session.list_tools()
    llm_response,       \* bmi main: the model's completion
    tool_call,          \* bmi main: json.loads(llm_response)
    sent,               \* call_tool requests written to the session
    result,             \* the Result Envelope call_tool returned
    formatted_result,   \* bmi main: result.content[0].text
    llm_calls,          \* calls of llm_client / analyze_image
    out,                \* what print() has shown
    idx,                \* opencv main: position of the for loop in result.content
    base64_image,       \* opencv main
    raw_image_data,     \* opencv main
    disk,               \* bytes written to output/debug_screenshot.png
    unit,               \* the function run on its own, "none" when a client runs
    fpc,                \* the statement that function is at
    weight_kg,          \* calculate_bmi: argument
    height_cm,          \* calculate_bmi: argument
    response,           \* calculate_bmi: the BMIResponse, bmi in hundredths
    cap_list,           \* prompt_to_identify_tools: tools.tools
    tools_prompt,       \* prompt_to_identify_tools: the returned prompt
    cam                 \* take_screenshot: camera, frame, file and outcome

clientVars ==
    << client, query, pc, proc, sess, exc, escaped, returned, log, tools, llm_response,
       tool_call, sent, result, formatted_result, llm_calls, out, idx, base64_image,
       raw_image_data, disk >>

unitVars == << unit, fpc, weight_kg, height_cm, response, cap_list, tools_prompt, cam >>

vars == << clientVars, unitVars >>

bmiVars == << llm_response, tool_call, formatted_result >>
cvVars == << idx, base64_image, raw_image_data, disk >>

NoResponse == [bmi |-> 0, category |-> ""]

NoCam ==
    [created |-> FALSE, opened |-> FALSE, released |-> FALSE, ret |-> FALSE,
     frame |-> "unset", written |-> FALSE, outcome |-> "none"]

\* no function runs on its own
UnitIdle ==
    /\ unit = "none"
    /\ fpc = "off"
    /\ weight_kg = 0
    /\ height_cm = 0
    /\ response = NoResponse
    /\ cap_list = <<>>
    /\ tools_prompt = <<>>
    /\ cam = NoCam

Init ==
    /\ UnitIdle
    /\ client \in { "bmi", "opencv", "tools" }
    /\ query = IF client = "opencv" THEN OpencvQuery ELSE BmiQuery
    /\ pc = "stdio_client"
    /\ proc = "none"
    /\ sess = "none"
    /\ exc = "none"
    /\ escaped = "none"
    /\ returned = <<>>
    /\ log = <<>>
    /\ tools = <<>>
    /\ llm_response = <<>>
    /\ tool_call = NoneV
    /\ sent = <<>>
    /\ result = NoEnvelope
    /\ formatted_result = <<>>
    /\ llm_calls = <<>>
    /\ out = <<>>
    /\ idx = 0
    /\ base64_image = <<>>
    /\ raw_image_data = <<>>
    /\ disk = <<>>

Printed(label, text) == [label |-> label, text |-> text]

----------------------------------------------------------------------------
(* Connection and session: the two "async with" scopes *)

\* an exception raised inside the ClientSession scope starts unwinding it
Raise(e) ==
    /\ exc' = e
    /\ pc' = "session_exit"

\* a launch whose failure is recorded but does not stop the client
stdio_client_enter_continue ==
    /\ pc = "stdio_client"
    /\ \E ok \in BOOLEAN :
        /\ proc' = IF ok THEN "running" ELSE proc
        /\ log' = IF ok THEN Append(log, "launch") ELSE log
        /\ exc' = IF ok THEN exc ELSE "LaunchError"
        /\ pc' = "ClientSession"
    /\ UNCHANGED unitVars
    /\ UNCHANGED << client, query, sess, escaped, returned, tools, sent, result,
                    llm_calls, out, bmiVars, cvVars >>

\* async with stdio_client(server_params) as (read, write): spawn the server
stdio_client_enter ==
    /\ pc = "stdio_client"
    /\ \E ok \in BOOLEAN :
        IF ok
        THEN /\ proc' = "running"
             /\ log' = Append(log, "launch")
             /\ pc' = "ClientSession"
             /\ exc' = exc
        ELSE /\ exc' = "LaunchError"
             /\ pc' = "main_exit"
             /\ UNCHANGED << proc, log >>
    /\ UNCHANGED unitVars
    /\ UNCHANGED << client, query, sess, escaped, returned, tools, sent, result,
                    llm_calls, out, bmiVars, cvVars >>

\* async with ClientSession(read, write) as session
ClientSession_enter ==
    /\ pc = "ClientSession"
    /\ sess' = "uninit"
    /\ log' = Append(log, "session_open")
    /\ pc' = "initialize"
    /\ UNCHANGED unitVars
    /\ UNCHANGED << client, query, proc, exc, escaped, returned, tools, sent, result,
                    llm_calls, out, bmiVars, cvVars >>

\* initialize whose failure is ignored: the client goes on uninitialized
initialize_unchecked ==
    /\ pc = "initialize"
    /\ \E o \in { "ok" } \cup SessionFailures :
        /\ sess' = IF o = "ok" THEN "init" ELSE sess
        /\ log' = IF o = "ok" THEN log \o << "initialize", "initialize_ok" >>
                  ELSE Append(log, "initialize")
        /\ pc' = IF client = "opencv" THEN "call_tool" ELSE "list_tools"
        /\ exc' = exc
    /\ UNCHANGED unitVars
    /\ UNCHANGED << client, query, proc, escaped, returned, tools, sent, result,
                    llm_calls, out, bmiVars, cvVars >>

\* await session.initialize()
initialize ==
    /\ pc = "initialize"
    /\ \E o \in { "ok" } \cup SessionFailures :
        IF o = "ok"
        THEN /\ sess' = "init"
             /\ log' = log \o << "initialize", "initialize_ok" >>
             /\ pc' = IF client = "opencv" THEN "call_tool" ELSE "list_tools"
             /\ exc' = exc
        ELSE /\ log' = Append(log, "initialize")
             /\ Raise(o)
             /\ sess' = sess
    /\ UNCHANGED unitVars
    /\ UNCHANGED << client, query, proc, escaped, returned, tools, sent, result,
                    llm_calls, out, bmiVars, cvVars >>

\* tools = await session.list_tools()   (get_tools_list then returns tools)
list_tools ==
    /\ pc = "list_tools"
    /\ \E o \in { "ok" } \cup SessionFailures :
        IF o = "ok"
        THEN /\ tools' = ServerTools(client)
             /\ log' = log \o << "list_tools", "list_tools_ok" >>
             /\ returned' = IF client = "tools" THEN ServerTools(client) ELSE returned
             /\ pc' = IF client = "tools" THEN "session_exit" ELSE "llm_select"
             /\ exc' = exc
        ELSE /\ log' = Append(log, "list_tools")
             /\ Raise(o)
             /\ UNCHANGED << tools, returned >>
    /\ UNCHANGED unitVars
    /\ UNCHANGED << client, query, proc, sess, escaped, sent, result, llm_calls, out,
                    bmiVars, cvVars >>

\* ClientSession.__aexit__: runs on return and on every exception
session_exit ==
    /\ pc = "session_exit"
    /\ sess' = "closed"
    /\ log' = Append(log, "session_close")
    /\ pc' = "stdio_exit"
    /\ UNCHANGED unitVars
    /\ UNCHANGED << client, query, proc, exc, escaped, returned, tools, sent, result,
                    llm_calls, out, bmiVars, cvVars >>

\* a channel closed by hand at the end of the normal path only
stdio_exit_leak ==
    /\ pc = "stdio_exit"
    /\ proc' = IF exc = "none" THEN "terminated" ELSE proc
    /\ log' = IF exc = "none" THEN Append(log, "terminate") ELSE log
    /\ pc' = "main_exit"
    /\ UNCHANGED unitVars
    /\ UNCHANGED << client, query, sess, exc, escaped, returned, tools, sent, result,
                    llm_calls, out, bmiVars, cvVars >>

\* stdio_client.__aexit__: terminates the child process
stdio_exit ==
    /\ pc = "stdio_exit"
    /\ proc' = "terminated"
    /\ log' = Append(log, "terminate")
    /\ pc' = "main_exit"
    /\ UNCHANGED unitVars
    /\ UNCHANGED << client, query, sess, exc, escaped, returned, tools, sent, result,
                    llm_calls, out, bmiVars, cvVars >>

\* Leaving main: opencv main catches Exception (CancelledError is not one),
\* bmi main and get_tools_list have no handler
main_exit ==
    /\ pc = "main_exit"
    /\ pc' = "done"
    /\ IF exc = "none"
       THEN UNCHANGED << escaped, out >>
       ELSE IF client = "opencv" /\ exc # "CancelledError"
            THEN /\ out' = Append(out, Printed("Failed to connect to server or process screenshot:",
                                                << Word(exc) >>))
                 /\ escaped' = escaped
            ELSE /\ escaped' = exc
                 /\ out' = out
    /\ UNCHANGED unitVars
    /\ UNCHANGED << client, query, proc, sess, exc, returned, log, tools, sent, result,
                    llm_calls, bmiVars, cvVars >>

----------------------------------------------------------------------------
(* bmi_client main, lines 117-138 *)

LLMCall(fn, prompt, url) == [fn |-> fn, prompt |-> prompt, url |-> url]

\* llm_response = llm_client(prompt_to_identify_tools(tools, query))
bmi_select ==
    /\ pc = "llm_select"
    /\ llm_calls' = Append(llm_calls,
                           LLMCall("llm_client", prompt_to_identify_tools(tools, query), NoUrl))
    /\ log' = Append(log, "llm_client")
    /\ \/ \E c \in Completions :
            /\ llm_response' = strip(c)
            /\ pc' = "json_loads"
            /\ exc' = exc
       \/ \E f \in LLMFailures :
            /\ Raise(f)
            /\ llm_response' = llm_response
    /\ UNCHANGED unitVars
    /\ UNCHANGED << client, query, proc, sess, escaped, returned, tools, tool_call,
                    formatted_result, sent, result, out, cvVars >>

\* tool_call = json.loads(llm_response)
bmi_parse ==
    /\ pc = "json_loads"
    /\ LET r == json_loads(llm_response) IN
        IF r.exc = "none"
        THEN /\ tool_call' = r.v
             /\ log' = Append(log, "json_loads_ok")
             /\ pc' = "call_tool"
             /\ exc' = exc
        ELSE /\ Raise(r.exc)
             /\ UNCHANGED << tool_call, log >>
    /\ UNCHANGED unitVars
    /\ UNCHANGED << client, query, proc, sess, escaped, returned, tools, llm_response,
                    formatted_result, sent, result, llm_calls, out, cvVars >>

\* a request that leaves the arguments out
Request_noargs(name, arguments) == [name |-> name, arguments |-> DictV(<<>>)]

\* the request call_tool builds: name must be a str, arguments a dict
Request(name, arguments) == [name |-> name, arguments |-> arguments]

\* Invoke with a failed call swallowed: the client goes on without an envelope
Invoke_swallow(req, next) ==
    /\ sent' = Append(sent, req)
    /\ \E o \in { "ok" } \cup SessionFailures :
        IF o = "ok"
        THEN /\ \E e \in Envelopes : result' = e
             /\ log' = log \o << "call_tool", "call_tool_ok" >>
             /\ pc' = next
             /\ exc' = exc
        ELSE /\ log' = Append(log, "call_tool")
             /\ pc' = next
             /\ exc' = exc
             /\ result' = result

\* the awaited part of session.call_tool: one request out, one envelope back
Invoke(req, next) ==
    /\ sent' = Append(sent, req)
    /\ \E o \in { "ok" } \cup SessionFailures :
        IF o = "ok"
        THEN /\ \E e \in Envelopes : result' = e
             /\ log' = log \o << "call_tool", "call_tool_ok" >>
             /\ pc' = next
             /\ exc' = exc
        ELSE /\ log' = Append(log, "call_tool")
             /\ Raise(o)
             /\ result' = result

\* result = await session.call_tool(tool_call["tool"], arguments=tool_call["arguments"])
bmi_call_tool ==
    /\ pc = "call_tool"
    /\ client = "bmi"
    /\ LET t == Subscript(tool_call, "tool")
           a == Subscript(tool_call, "arguments")
       IN IF t.exc # "none"
          THEN Raise(t.exc) /\ UNCHANGED << sent, result, log >>
          ELSE IF a.exc # "none"
          THEN Raise(a.exc) /\ UNCHANGED << sent, result, log >>
          ELSE IF t.v.ty # "str" \/ a.v.ty # "dict"
          THEN Raise("ValidationError") /\ UNCHANGED << sent, result, log >>
          ELSE Invoke(Request(t.v.s, a.v), "format")
    /\ UNCHANGED unitVars
    /\ UNCHANGED << client, query, proc, sess, escaped, returned, tools, llm_calls, out,
                    bmiVars, cvVars >>

\* lines 132-133: formatted_result = result.content[0].text, then the f-string
\* reading tool_call["arguments"]["weight_kg"] and ["height_cm"]
bmi_format ==
    /\ pc = "format"
    /\ log' = Append(log, "read_content")
    /\ LET args == Subscript(tool_call, "arguments").v
           w == Subscript(args, "weight_kg")
           h == Subscript(args, "height_cm")
       IN IF result.content = <<>>
          THEN Raise("IndexError") /\ formatted_result' = formatted_result
          ELSE IF result.content[1].type # "text"
          THEN Raise("AttributeError") /\ formatted_result' = formatted_result
          ELSE /\ formatted_result' = result.content[1].text
               /\ IF w.exc # "none" THEN Raise(w.exc)
                  ELSE IF h.exc # "none" THEN Raise(h.exc)
                  ELSE pc' = "summarize" /\ exc' = exc
    /\ UNCHANGED unitVars
    /\ UNCHANGED << client, query, proc, sess, escaped, returned, tools, llm_response,
                    tool_call, sent, result, llm_calls, out, cvVars >>

result_prompt(q, fr) ==
    << Word("Here is the result for the query '") >> \o q \o << Word("': The BMI is ") >> \o fr

\* lines 136-138: the follow-up model call and the print of its answer
bmi_summarize ==
    /\ pc = "summarize"
    /\ llm_calls' = Append(llm_calls,
                           LLMCall("llm_client", result_prompt(query, formatted_result), NoUrl))
    /\ log' = Append(log, "llm_client")
    /\ \/ \E c \in Summaries :
            /\ out' = Append(out, Printed("Result LLM response:", strip(c)))
            /\ pc' = "session_exit"
            /\ exc' = exc
       \/ \E f \in LLMFailures :
            /\ Raise(f)
            /\ out' = out
    /\ UNCHANGED unitVars
    /\ UNCHANGED << client, query, proc, sess, escaped, returned, tools, sent, result,
                    bmiVars, cvVars >>

----------------------------------------------------------------------------
(* opencv_client main, lines 73-112 *)

ScreenshotArgs ==
    DictV(<< [key |-> "output_filename", val |-> StrV("captured_image.png")] >>)

\* result = await session.call_tool("take_screenshot", arguments={...})
opencv_call_tool ==
    /\ pc = "call_tool"
    /\ client = "opencv"
    /\ Invoke(Request("take_screenshot", ScreenshotArgs), "loop")
    /\ idx' = 1
    /\ UNCHANGED unitVars
    /\ UNCHANGED << client, query, proc, sess, escaped, returned, tools, llm_calls, out,
                    bmiVars, base64_image, raw_image_data, disk >>

\* lines 85-92: the base64 text and the raw bytes of an image payload
Convert(content) ==
    IF content.isstr
    THEN [exc |-> b64decode(content.data).exc,
          base64_image |-> content.data,
          raw_image_data |-> b64decode(content.data).v]
    ELSE [exc |-> "none",
          base64_image |-> b64encode(content.data),
          raw_image_data |-> content.data]

\* lines 80-92: next item of result.content; an image item is converted.
\* The loop runs over the list it started with: the rebinding of the name
\* result at line 111 does not end it.
opencv_loop ==
    /\ pc = "loop"
    /\ log' = Append(log, "read_content")
    /\ IF idx > Len(result.content)
       THEN /\ pc' = "session_exit"
            /\ UNCHANGED << exc, idx, base64_image, raw_image_data >>
       ELSE IF result.content[idx].type # "image"
       THEN /\ idx' = idx + 1
            /\ UNCHANGED << pc, exc, base64_image, raw_image_data >>
       ELSE LET c == Convert(result.content[idx]) IN
            IF c.exc # "none"
            THEN /\ Raise(c.exc)
                 /\ base64_image' = c.base64_image
                 /\ UNCHANGED << idx, raw_image_data >>
            ELSE /\ base64_image' = c.base64_image
                 /\ raw_image_data' = c.raw_image_data
                 /\ pc' = "persist"
                 /\ UNCHANGED << exc, idx >>
    /\ UNCHANGED unitVars
    /\ UNCHANGED << client, query, proc, sess, escaped, returned, tools, sent, result,
                    llm_calls, out, bmiVars, disk >>

\* lines 95-105: os.makedirs outside the try, the write inside it
opencv_persist ==
    /\ pc = "persist"
    /\ \E w \in { "ok", "makedirs_fails", "open_fails", "write_fails" } :
        IF w = "makedirs_fails"
        THEN /\ Raise("OSError")
             /\ UNCHANGED << disk, out >>
        ELSE /\ pc' = "analyze"
             /\ exc' = exc
             /\ disk' = IF w = "ok" THEN raw_image_data
                        ELSE IF w = "write_fails" THEN <<>>
                        ELSE disk
             /\ out' = IF w = "ok" THEN out
                       ELSE Append(out, Printed("Error saving image:", << Word("OSError") >>))
    /\ UNCHANGED unitVars
    /\ UNCHANGED << client, query, proc, sess, escaped, returned, log, tools, sent, result,
                    llm_calls, bmiVars, idx, base64_image, raw_image_data >>

image_url(b64) == [mime |-> "image/png", payload |-> b64]

\* lines 108-112 and analyze_image: one vision call for this image
opencv_analyze ==
    /\ pc = "analyze"
    /\ \/ /\ llm_calls' = llm_calls
          /\ log' = log
          /\ out' = Append(out, Printed("Error analyzing image with OpenAI:",
                                        << Word("ValueError") >>))
          /\ Raise("ValueError")
          /\ idx' = idx
       \/ /\ llm_calls' = Append(llm_calls,
                                 LLMCall("analyze_image", query, image_url(base64_image)))
          /\ log' = Append(log, "analyze_image")
          /\ \/ \E c \in Summaries :
                  /\ out' = Append(out, Printed("Image analysis result:", strip(c)))
                  /\ idx' = idx + 1
                  /\ pc' = "loop"
                  /\ exc' = exc
             \/ \E f \in LLMFailures :
                  /\ out' = Append(out, Printed("Error analyzing image with OpenAI:",
                                                << Word(f) >>))
                  /\ Raise(f)
                  /\ idx' = idx
    /\ UNCHANGED unitVars
    /\ UNCHANGED << client, query, proc, sess, escaped, returned, tools, sent, result,
                    bmiVars, base64_image, raw_image_data, disk >>

----------------------------------------------------------------------------

Next ==
    \/ stdio_client_enter
    \/ ClientSession_enter
    \/ initialize
    \/ list_tools
    \/ bmi_select
    \/ bmi_parse
    \/ bmi_call_tool
    \/ bmi_format
    \/ bmi_summarize
    \/ opencv_call_tool
    \/ opencv_loop
    \/ opencv_persist
    \/ opencv_analyze
    \/ session_exit
    \/ stdio_exit
    \/ main_exit

Spec == Init /\ [][Next]_vars

\* asyncio.run drives the coroutine until it returns or raises: every
\* statement, once reached, is executed.
FairSpec == Spec /\ WF_vars(Next)

----------------------------------------------------------------------------
(* The server tools and the prompt builder, each called on its own:        *)
(*   src/servers/bmi_server/server.py      calculate_bmi                   *)
(*   src/servers/opencv_server/server.py   take_screenshot                 *)
(*   src/clients/bmi_client/client.py      prompt_to_identify_tools        *)

MinWeight == 60
MaxWeight == 100
MinHeight == 160
MaxHeight == 200
MaxTools == 3

\* the if/elif chain of lines 34-41 with the bands of Normal and Overweight exchanged
Category_swapped(bmi) ==
    IF FLess(bmi, 37, 2) THEN "Underweight"
    ELSE IF FLess(bmi, 25, 1) THEN "Overweight"
    ELSE IF FLess(bmi, 30, 1) THEN "Normal"
    ELSE "Obese"

\* lines 34-41: bmi < 18.5, bmi < 25, bmi < 30 on the float
Category(bmi) ==
    IF FLess(bmi, 37, 2) THEN "Underweight"
    ELSE IF FLess(bmi, 25, 1) THEN "Normal"
    ELSE IF FLess(bmi, 30, 1) THEN "Overweight"
    ELSE "Obese"

\* BMIResponse(bmi=round(bmi, 2), category=category), bmi kept in hundredths
BMIResponse(w, h) ==
    LET height_m == FDiv(Float(h), Float(100))
        bmi == FDiv(Float(w), FMul(height_m, height_m))
    IN  [bmi |-> Round2(bmi), category |-> Category(bmi)]

calculate_bmi ==
    /\ unit = "calculate_bmi"
    /\ fpc = "call"
    /\ response' = BMIResponse(weight_kg, height_cm)
    /\ fpc' = "done"
    /\ UNCHANGED << unit, weight_kg, height_cm, cap_list, tools_prompt, cam >>
    /\ UNCHANGED clientVars

\* all tools the three servers register
AllTools == BmiServerTools \o HelloWorldServerTools \o OpencvServerTools

\* tools.tools of a ListToolsResult
CapLists == SeqsUpTo({ AllTools[j] : j \in 1..Len(AllTools) }, MaxTools)

build_prompt ==
    /\ unit = "prompt_to_identify_tools"
    /\ fpc = "call"
    /\ tools_prompt' = prompt_to_identify_tools(cap_list, BmiQuery)
    /\ fpc' = "done"
    /\ UNCHANGED << unit, weight_kg, height_cm, response, cap_list, cam >>
    /\ UNCHANGED clientVars

camFrame == << unit, weight_kg, height_cm, response, cap_list, tools_prompt >>

\* line 24: cap = cv2.VideoCapture(0); the device may or may not open
VideoCapture ==
    /\ unit = "take_screenshot"
    /\ fpc = "VideoCapture"
    /\ \E o \in BOOLEAN : cam' = [cam EXCEPT !.created = TRUE, !.opened = o]
    /\ fpc' = "isOpened"
    /\ UNCHANGED camFrame
    /\ UNCHANGED clientVars

\* lines 27-30: if not cap.isOpened(): raise ValueError
isOpened ==
    /\ unit = "take_screenshot"
    /\ fpc = "isOpened"
    /\ fpc' = IF cam.opened THEN "read" ELSE "except"
    /\ UNCHANGED cam
    /\ UNCHANGED camFrame
    /\ UNCHANGED clientVars

\* line 33: ret, frame = cap.read(); a failed read returns (False, None)
read ==
    /\ unit = "take_screenshot"
    /\ fpc = "read"
    /\ \E ok \in BOOLEAN :
           cam' = [cam EXCEPT !.ret = ok, !.frame = IF ok THEN "ndarray" ELSE "None"]
    /\ fpc' = "imwrite"
    /\ UNCHANGED camFrame
    /\ UNCHANGED clientVars

\* lines 36-43: os.makedirs may raise OSError; cv2.imwrite raises cv2.error on an
\* empty image, and otherwise writes the file or returns False
imwrite ==
    /\ unit = "take_screenshot"
    /\ fpc = "imwrite"
    /\ \/ /\ fpc' = "except"
          /\ UNCHANGED cam
       \/ /\ cam.frame = "ndarray"
          /\ \E w \in BOOLEAN : cam' = [cam EXCEPT !.written = w]
          /\ fpc' = "release"
    /\ UNCHANGED camFrame
    /\ UNCHANGED clientVars

\* line 46: cap.release()
release ==
    /\ unit = "take_screenshot"
    /\ fpc = "release"
    /\ cam' = [cam EXCEPT !.released = TRUE]
    /\ fpc' = "ret"
    /\ UNCHANGED camFrame
    /\ UNCHANGED clientVars

\* lines 49-50: if not ret: raise ValueError
check_ret ==
    /\ unit = "take_screenshot"
    /\ fpc = "ret"
    /\ fpc' = IF cam.ret THEN "imencode" ELSE "except"
    /\ UNCHANGED cam
    /\ UNCHANGED camFrame
    /\ UNCHANGED clientVars

\* lines 53-57: cv2.imencode raises, or the Image is returned
imencode ==
    /\ unit = "take_screenshot"
    /\ fpc = "imencode"
    /\ \/ /\ fpc' = "except"
          /\ UNCHANGED cam
       \/ /\ cam' = [cam EXCEPT !.outcome = "Image"]
          /\ fpc' = "done"
    /\ UNCHANGED camFrame
    /\ UNCHANGED clientVars

\* lines 58-61: except Exception: traceback.print_exc(); raise ValueError(...)
except_handler ==
    /\ unit = "take_screenshot"
    /\ fpc = "except"
    /\ cam' = [cam EXCEPT !.outcome = "ValueError"]
    /\ fpc' = "done"
    /\ UNCHANGED camFrame
    /\ UNCHANGED clientVars

UnitInit ==
    /\ client = "none"
    /\ query = <<>>
    /\ pc = "off"
    /\ proc = "none"
    /\ sess = "none"
    /\ exc = "none"
    /\ escaped = "none"
    /\ returned = <<>>
    /\ log = <<>>
    /\ tools = <<>>
    /\ llm_response = <<>>
    /\ tool_call = NoneV
    /\ sent = <<>>
    /\ result = NoEnvelope
    /\ formatted_result = <<>>
    /\ llm_calls = <<>>
    /\ out = <<>>
    /\ idx = 0
    /\ base64_image = <<>>
    /\ raw_image_data = <<>>
    /\ disk = <<>>
    /\ unit \in { "calculate_bmi", "take_screenshot", "prompt_to_identify_tools" }
    /\ fpc = IF unit = "take_screenshot" THEN "VideoCapture" ELSE "call"
    /\ weight_kg \in IF unit = "calculate_bmi" THEN MinWeight..MaxWeight ELSE { 0 }
    /\ height_cm \in IF unit = "calculate_bmi" THEN MinHeight..MaxHeight ELSE { 0 }
    /\ response = NoResponse
    /\ cap_list \in IF unit = "prompt_to_identify_tools" THEN CapLists ELSE { <<>> }
    /\ tools_prompt = <<>>
    /\ cam = NoCam

UnitNext ==
    \/ calculate_bmi
    \/ build_prompt
    \/ VideoCapture
    \/ isOpened
    \/ read
    \/ imwrite
    \/ release
    \/ check_ret
    \/ imencode
    \/ except_handler

UnitSpec == UnitInit /\ [][UnitNext]_vars

----------------------------------------------------------------------------
(* Properties *)

Occurs(ev) == \E j \in 1..Len(log) : log[j] = ev
Count(ev) == Cardinality({ j \in 1..Len(log) : log[j] = ev })
\* every occurrence of b has an a strictly before it
Precedes(a, b) ==
    \A j \in 1..Len(log) : log[j] = b => \E i \in 1..(j - 1) : log[i] = a
Shown(text) == \E j \in 1..Len(out) : out[j].text = text

\* a completion that is a JSON object with both "tool" and "arguments"
IsToolCall(text) ==
    /\ json_loads(text).exc = "none"
    /\ Subscript(json_loads(text).v, "tool").exc = "none"
    /\ Subscript(json_loads(text).v, "arguments").exc = "none"

\* model calls made after the tool's result came back
FollowUpCalls ==
    IF client = "bmi" THEN (IF Len(llm_calls) > 1 THEN Len(llm_calls) - 1 ELSE 0)
    ELSE Len(llm_calls)

\* C1: in the bmi client, a completion that is not a {tool, arguments} JSON
\* object never raises: main ends normally and the completion is shown as
\* the answer.
C1_DecisionNeverRaises ==
    (client = "bmi" /\ pc = "done" /\ llm_response # <<>> /\ ~IsToolCall(llm_response))
        => (escaped = "none" /\ Shown(llm_response))

\* C2: the bmi client never sends call_tool for a tool name that is not in
\* the Capability List it fetched with list_tools.
C2_UnknownToolNotDispatched ==
    client = "bmi" => \A j \in 1..Len(sent) : sent[j].name \in ToolNames(tools)

\* C3: once an envelope with is_error = true has been received, no follow-up
\* model call is made with it, and when main ends its text has been shown
\* as the failure.
C3_ErrorEnvelopeSurfaced ==
    (Occurs("call_tool_ok") /\ result.isError)
        => /\ FollowUpCalls = 0
           /\ pc = "done" =>
                \A j \in 1..Len(result.content) :
                    result.content[j].type = "text" => Shown(result.content[j].text)

C5_SessionLifecycle ==
    /\ Count("initialize") <= 1
    /\ (sess # "none" /\ pc # "initialize") => Count("initialize") = 1
    /\ \A ev \in { "list_tools", "call_tool" } :
          /\ Precedes("initialize_ok", ev)
          /\ \A j \in 1..Len(log) :
                log[j] = ev => \A i \in 1..j : log[i] # "session_close"
    /\ Precedes("session_open", "initialize")
    /\ \A j \in 1..Len(log) :
          log[j] = "initialize" => \A i \in 1..j : log[i] # "session_close"
    /\ sess = "init" <=> (Occurs("initialize_ok") /\ ~Occurs("session_close"))
    /\ sess = "closed" <=> Occurs("session_close")

C5_Witness ==
    /\ pc = "done"
    /\ sess = "closed"
    /\ Occurs("list_tools_ok")
    /\ Occurs("call_tool_ok")

\* C6: once the server process runs, every way out of the client (return,
\* exception of a session call, of the model call or of result handling,
\* cancellation) terminates it: the run never ends with the process
\* running.
C6_ChannelClosed ==
    /\ [](pc = "done" => proc # "running")
    /\ (proc = "running") ~> (proc = "terminated")

C6_Witness ==
    /\ proc = "terminated"
    /\ exc = "CancelledError"
    /\ Occurs("call_tool")

\* C7: whatever happens while the image is persisted, the opencv client
\* goes on from the persistence step to the analysis of that image.
C7_PersistenceNonFatal ==
    [][pc = "persist" => pc' = "analyze"]_vars

\* C8: per query at most one call_tool and at most one follow-up model call,
\* however many Content Items the envelope holds.
C8_SingleFlow ==
    /\ Len(sent) <= 1
    /\ FollowUpCalls <= 1

\* C9: no error leaves a client's main as a raw exception, and every error
\* that ended the run has been reported to the user.
C9_NoRawCrash ==
    (client \in { "bmi", "opencv" } /\ pc = "done")
        => /\ escaped \in { "none", "CancelledError" }
           /\ exc \notin { "none", "CancelledError" } => out # <<>>

\* C10: when the bmi client's completion is the plain text "Tools are not
\* needed here.", no call_tool is sent and that text is the final answer.
C10_PlainTextIsAnswer ==
    (client = "bmi" /\ pc = "done" /\ llm_response = PlainAnswer)
        => (sent = <<>> /\ Shown(PlainAnswer))

\* the value a string or number token stands for
TokVal(tok) == IF tok.k = "str" THEN StrV(tok.s) ELSE NumV(tok.n)

\* the mapping a flat object text { "k": v, ... } with distinct keys
\* denotes, read off by position
FlatDict(t) ==
    [j \in 1..((Len(t) - 1) \div 4) |-> [key |-> t[4 * j - 2].s, val |-> TokVal(t[4 * j])]]

ArgTexts == { BmiArgs, HeightOnlyArgs }

\* C11: when the completion is a JSON object {tool, arguments} (members in
\* either order) naming a fetched capability, then once the bmi client is
\* past call_tool it has sent exactly one request, with that name and with
\* exactly the keys and values of that arguments object.
C11_RequestUnchanged ==
    \A name \in ToolNames(tools), a \in ArgTexts :
        (/\ client = "bmi"
         /\ llm_response \in { ToolCallText(name, a), ToolCallTextSwapped(name, a) }
         /\ pc \notin { "json_loads", "call_tool" })
            => sent = << [name |-> name, arguments |-> DictV(FlatDict(a))] >>

C11_Witness ==
    /\ client = "bmi"
    /\ llm_response = ToolCallTextSwapped("calculate_bmi", BmiArgs)
    /\ Occurs("call_tool_ok")
    /\ Len(sent) = 1

\* C12: when the server process cannot be launched, the launch error is
\* raised before anything else: no session is opened, no initialize,
\* list_tools or call_tool is attempted and no model call is made.
C12_LaunchErrorFirst ==
    exc = "LaunchError"
        => /\ log = <<>>
           /\ sent = <<>>
           /\ llm_calls = <<>>
           /\ sess = "none"
           /\ proc = "none"

C12_Witness ==
    /\ pc = "done"
    /\ exc = "LaunchError"
    /\ client \in { "bmi", "opencv" }

\* the image items of the envelope, in order: the opencv client makes its
\* n-th analyze_image call for the n-th of them
ImageItems == SelectSeq(result.content, LAMBDA c : c.type = "image")

\* C13: the image reference handed to analyze_image for an image item is
\* data:image/<format>;base64,<payload> with the item's own format tag and
\* with the item's base64 text: encoded from raw bytes, unchanged if textual.
C13_DataUri ==
    client = "opencv" =>
        \A n \in 1..Len(llm_calls) :
            llm_calls[n].url =
                [mime |-> ImageItems[n].mimeType,
                 payload |-> IF ImageItems[n].isstr THEN ImageItems[n].data
                             ELSE b64encode(ImageItems[n].data)]

\* the last persistence step wrote the file
Saved == out = <<>> \/ out[Len(out)].label # "Error saving image:"

\* C16: in the opencv client the bytes written to debug_screenshot.png are
\* the base64-decoding of the payload that goes into the data URI, in the
\* text branch and in the raw-bytes branch, and a raw payload b is got back
\* exactly by decoding the payload of its data URI.
C16_RoundTrip ==
    client = "opencv" =>
        /\ pc = "analyze" =>
              /\ b64decode(base64_image).exc = "none"
              /\ b64decode(base64_image).v = raw_image_data
              /\ Saved => disk = b64decode(base64_image).v
        /\ \A n \in 1..Len(llm_calls) :
              ~ImageItems[n].isstr =>
                  b64decode(llm_calls[n].url.payload).v = ImageItems[n].data

C16_Witness ==
    /\ client = "opencv"
    /\ pc = "analyze"
    /\ ~result.content[idx].isstr
    /\ Len(result.content[idx].data) = 2
    /\ Saved
    /\ disk = result.content[idx].data

Contains(text, sub) ==
    \E i \in 1..(Len(text) - Len(sub) + 1) : SubSeq(text, i, i + Len(sub) - 1) = sub

\* C18: for a successful envelope with any number of items, the bmi client
\* does not crash on an empty one, and the follow-up prompt it sends holds
\* the query and the text of every text item.
C18_TextItemsPassThrough ==
    (client = "bmi" /\ Occurs("call_tool_ok") /\ ~result.isError)
        => /\ result.content = <<>> => exc # "IndexError"
           /\ Len(llm_calls) >= 2 =>
                /\ Contains(llm_calls[2].prompt, query)
                /\ \A j \in 1..Len(result.content) :
                      result.content[j].type = "text"
                          => Contains(llm_calls[2].prompt, result.content[j].text)

----------------------------------------------------------------------------
(* calculate_bmi, take_screenshot and prompt_to_identify_tools on their own *)

Returned(f) == unit = f /\ fpc = "done"

\* the band the exact quotient weight_kg / (height_cm/100)^2 = 10000 w / h^2
\* lies in, by integer cross-multiplication
ExactCategory(w, h) ==
    IF 20000 * w < 37 * h * h THEN "Underweight"
    ELSE IF 10000 * w < 25 * h * h THEN "Normal"
    ELSE IF 10000 * w < 30 * h * h THEN "Overweight"
    ELSE "Obese"

AllCategories == { "Underweight", "Normal", "Overweight", "Obese" }

\* C14: calculate_bmi returns exactly one of the four categories, and it is
\* the half-open band that the BMI weight_kg / (height_cm/100)^2 lies in:
\* below 18.5 Underweight, from 18.5 below 25 Normal, from 25 below 30
\* Overweight, from 30 Obese; a BMI of exactly 25.0 is Overweight.
C14_HalfOpenBands ==
    Returned("calculate_bmi")
        => /\ response.category \in AllCategories
           /\ response.category = ExactCategory(weight_kg, height_cm)

\* C15 as stated: calculate_bmi(weight_kg=84, height_cm=180) returns the
\* category "Normal".
C15_ScenarioANormal ==
    (Returned("calculate_bmi") /\ weight_kg = 84 /\ height_cm = 180)
        => response.category = "Normal"

\* C15 amended: calculate_bmi(weight_kg=84, height_cm=180) returns the
\* category "Overweight" with the bmi 25.93.
C15_ScenarioAOverweight ==
    (Returned("calculate_bmi") /\ weight_kg = 84 /\ height_cm = 180)
        => /\ response.category = "Overweight"
           /\ response.bmi = 2593

C15_Witness == Returned("calculate_bmi") /\ weight_kg = 84 /\ height_cm = 180

\* positions of the entry marker "Tool: " in a prompt
Marks(t) == { j \in 1..Len(t) : t[j] = Word("Tool: ") }

\* the k-th marker, counting from the start of the prompt
MarkAt(t, k) == CHOOSE j \in Marks(t) : Cardinality({ i \in Marks(t) : i <= j }) = k

\* the entries read back from a prompt: after each marker the name, then the
\* labelled description and the labelled input schema
ParseEntries(t) ==
    [k \in 1..Cardinality(Marks(t)) |->
        LET p == MarkAt(t, k)
        IN  IF /\ p + 5 <= Len(t)
               /\ t[p + 2] = Word("\nDescription: ")
               /\ t[p + 4] = Word("\nInput Schema: ")
            THEN Tool(t[p + 1].s, t[p + 3].s, t[p + 5].s)
            ELSE Tool(t[p + 1].s, "?", "?")]

C19_CameraReleased ==
    Returned("take_screenshot")
        => /\ cam.created => cam.released
           /\ (cam.frame = "None") => ~cam.written

\* the band a value given in hundredths lies in
CategoryOfHundredths(c) ==
    IF c < 1850 THEN "Underweight"
    ELSE IF c < 2500 THEN "Normal"
    ELSE IF c < 3000 THEN "Overweight"
    ELSE "Obese"

\* C20: the category of a BMIResponse is the band that its own bmi field,
\* the value rounded to two decimals, lies in.
C20_SelfConsistent ==
    Returned("calculate_bmi") => response.category = CategoryOfHundredths(response.bmi)

====
